---- MODULE Spec2Model ----
(***************************************************************************)
(* Bayes-by-Backprop variational layers and networks                       *)
(* (project/code/variational.py) with the training step that drives them   *)
(* (project/code/reinforcement_learning.py).                               *)
(*                                                                         *)
(* Real numbers are fixed-point integers in thousandths (1000 is 1.0).     *)
(* The IEEE values the code can produce are kept apart from them:          *)
(* NegInf is log(0), NaN is 0/0.                                           *)
(***************************************************************************)
EXTENDS Integers, Sequences, FiniteSets, TLC

VARIABLES variant, prior, units, seed, rng, nextId, layers, is_connected,
          store, logits, ret, completed, passes, masked

vars == <<variant, prior, units, seed, rng, nextId, layers, is_connected,
          store, logits, ret, completed, passes, masked>>

----------------------------------------------------------------------------
(* Bounds of the model *)

\* number of seeds of the random number generator
NSeeds == 1
\* widest flattened input fed to a forward pass
MaxWidth == 2
\* hidden units given to the constructor
Units == 2
\* calls served by the random number generator in one run: forward passes,
\* training steps and sample_posterior calls
MaxPasses == 2

----------------------------------------------------------------------------
(* Numbers *)

One == 1000
NegInf == -100000000
NaN == 99999999

IsFinite(v) == v # NegInf /\ v # NaN

Abs(v) == IF v < 0 THEN -v ELSE v

Max(a, b) == IF a >= b THEN a ELSE b

\* n / d rounded to the nearest integer, d > 0
RoundDiv(n, d) == IF n >= 0 THEN (2 * n + d) \div (2 * d)
                  ELSE -((2 * (-n) + d) \div (2 * d))

\* tf.nn.softplus at the raw scales -6.0, -5.0, ... 3.0
SoftplusKnots == <<2, 7, 18, 49, 127, 313, 693, 1313, 2127, 3049>>
RhoMin == -6000
RhoMax == 3000

RhoKnot(k) == RhoMin + (k - 1) * One

\* tf.nn.softplus: log(1 + exp(rho)), linear between the knots; softplus(-inf) = 0
Softplus(rho) ==
    IF rho = NegInf THEN 0
    ELSE IF rho <= RhoMin THEN SoftplusKnots[1]
    ELSE IF rho >= RhoMax THEN SoftplusKnots[Len(SoftplusKnots)] + (rho - RhoMax)
    ELSE LET k == ((rho - RhoMin) \div One) + 1
             lo == SoftplusKnots[k]
             hi == SoftplusKnots[k + 1]
         IN lo + RoundDiv((rho - RhoKnot(k)) * (hi - lo), One)

\* the mutant of SoftplusInverse: a scale of 0 is clamped to the smallest raw scale
SoftplusInverseClamped(s) ==
    IF s <= SoftplusKnots[1] THEN RhoMin
    ELSE IF s >= SoftplusKnots[Len(SoftplusKnots)]
         THEN RhoMax + (s - SoftplusKnots[Len(SoftplusKnots)])
    ELSE LET k == CHOOSE i \in 1..(Len(SoftplusKnots) - 1) :
                     SoftplusKnots[i] <= s /\ s < SoftplusKnots[i + 1]
         IN RhoKnot(k) + RoundDiv((s - SoftplusKnots[k]) * One,
                                  SoftplusKnots[k + 1] - SoftplusKnots[k])

\* tf.contrib.distributions.softplus_inverse: log(expm1(x)); x = 0 takes the
\* is_too_small branch, log(0) = -inf
SoftplusInverse(s) ==
    IF s = 0 THEN NegInf
    ELSE IF s <= SoftplusKnots[1] THEN RhoMin
    ELSE IF s >= SoftplusKnots[Len(SoftplusKnots)]
         THEN RhoMax + (s - SoftplusKnots[Len(SoftplusKnots)])
    ELSE LET k == CHOOSE i \in 1..(Len(SoftplusKnots) - 1) :
                     SoftplusKnots[i] <= s /\ s < SoftplusKnots[i + 1]
             lo == SoftplusKnots[k]
             hi == SoftplusKnots[k + 1]
         IN RhoKnot(k) + RoundDiv((s - lo) * One, hi - lo)

\* tf.math.log at the scales the model meets, linear between the knots
LogKnotsX == <<2, 7, 18, 49, 127, 300, 313, 693, 1000, 1313, 2127, 3049>>
LogKnotsY == <<-6215, -4962, -4017, -3016, -2064, -1204, -1162, -367, 0, 272, 755, 1115>>

Log(x) ==
    IF x = 0 THEN NegInf
    ELSE IF x <= LogKnotsX[1] THEN LogKnotsY[1]
    ELSE IF x >= LogKnotsX[Len(LogKnotsX)] THEN LogKnotsY[Len(LogKnotsY)]
    ELSE LET k == CHOOSE i \in 1..(Len(LogKnotsX) - 1) :
                     LogKnotsX[i] <= x /\ x < LogKnotsX[i + 1]
         IN LogKnotsY[k] + RoundDiv((x - LogKnotsX[k]) * (LogKnotsY[k + 1] - LogKnotsY[k]),
                                    LogKnotsX[k + 1] - LogKnotsX[k])

\* float addition and subtraction: NaN absorbs
Add(a, b) == IF a = NaN \/ b = NaN THEN NaN ELSE a + b
Sub(a, b) == IF a = NaN \/ b = NaN THEN NaN ELSE a - b

\* sum of the first n entries of a sequence
RECURSIVE SumOver(_, _)
SumOver(f, n) == IF n = 0 THEN 0 ELSE Add(f[n], SumOver(f, n - 1))

----------------------------------------------------------------------------
(* Tensors: a weight of shape [in, out] is a function on (1..in) \X (1..out), *)
(* a bias of shape [out] is the single row {1} \X (1..out)                   *)

NoTensor == [i \in {} |-> 0]

WeightShape(in, out) == (1..in) \X (1..out)
BiasShape(out) == {1} \X (1..out)

\* a number for the entry i of a tensor, to tell the entries' noise apart
Flat(i) == 4 * i[1] + i[2]

\* tf.reshape(t, [-1]) of a weight of shape [in, out], row-major
FlattenWeight(t, in, out) ==
    [n \in 1..(in * out) |-> t[<<((n - 1) \div out) + 1, ((n - 1) % out) + 1>>]]

FlattenBias(t, out) == [n \in 1..out |-> t[<<1, n>>]]

RECURSIVE Concat(_)
Concat(seqs) == IF seqs = <<>> THEN <<>> ELSE Head(seqs) \o Concat(Tail(seqs))

InWidth(t) == Cardinality({i[1] : i \in DOMAIN t})
OutWidth(t) == Cardinality({i[2] : i \in DOMAIN t})

FlatW(t) == FlattenWeight(t, InWidth(t), OutWidth(t))
FlatB(t) == FlattenBias(t, OutWidth(t))

\* tf.reduce_sum of a tensor
ReduceSum(t) == SumOver(FlatW(t), InWidth(t) * OutWidth(t))

----------------------------------------------------------------------------
(* Random numbers: the generator is a seed and a count of the draws served *)

\* standard normal noise of one entry of one draw
Epsilon(sd, draw, n) == (((sd + 2 * draw + n) % 3) - 1) * One

\* tf.initializers.glorot_uniform
GlorotValues == <<-500, -49, 0, 49, 98, 500>>

GlorotUniform(sd, slot, kind, n) ==
    GlorotValues[((5 * sd + 3 * slot + 7 * kind + (sd + 1) * n) % Len(GlorotValues)) + 1]

\* tf.initializers.constant(-3)
RhoInit == -3000

----------------------------------------------------------------------------
(* Distributions *)

HalfLog2Pi == 919

\* tfp.distributions.Normal(loc, scale).log_prob(x) of one entry
NormalLogProb(x, loc, scale) ==
    IF scale = 0 THEN NaN
    ELSE LET z == RoundDiv((x - loc) * One, scale)
         IN -RoundDiv(z * z, 2 * One) - Log(scale) - HalfLog2Pi

\* tf.exp at the arguments the prior constructors meet
Exp(x) == CASE x = 0 -> 1000
            [] x = -1000 -> 368
            [] x = 1000 -> 2718
            [] x = -5000 -> 7
            [] x = 5000 -> 148413
            [] OTHER -> 1000

create_gaussian_prior(params) ==
    [kind |-> "Normal", loc |-> params.mu, scale |-> Exp(-params.sigma)]

\* the prior reinforcement_learning.run hands to the agent
AgentPrior == [kind |-> "Normal", loc |-> 0, scale |-> 300]

\* prior.log_prob(x) of one entry
PriorLogProb(p, x) == NormalLogProb(x, p.loc, p.scale)

\* tfp.distributions.Normal(loc = mu, scale = softplus(rho))
NormalDist(mu, rho) == [loc |-> mu, scale |-> [i \in DOMAIN rho |-> Softplus(rho[i])]]

\* the mutant of Sample: the generator is re-seeded before every draw
SampleReseeded(dist, sd, r) ==
    [draw |-> 1,
     val |-> [i \in DOMAIN dist.loc |->
                 dist.loc[i] + RoundDiv(dist.scale[i] * Epsilon(sd, 1, Flat(i)), One)]]

\* dist.sample(): loc + scale * epsilon, the next draw of the generator
Sample(dist, sd, r) ==
    [draw |-> r + 1,
     val |-> [i \in DOMAIN dist.loc |->
                 dist.loc[i] + RoundDiv(dist.scale[i] * Epsilon(sd, r + 1, Flat(i)), One)]]

\* the mutant of KlTerm: the log-densities are taken at a sample drawn anew
KlTermResampled(dist, x, p, sd) ==
    LET y == Sample(dist, sd, x.draw)
    IN [at |-> y.draw,
        val |-> ReduceSum([i \in DOMAIN y.val |->
                    Sub(NormalLogProb(y.val[i], dist.loc[i], dist.scale[i]),
                        PriorLogProb(p, y.val[i]))])]

\* tf.reduce_sum(dist.log_prob(x) - prior.log_prob(x)) at the sample x
KlTerm(dist, x, p, sd) ==
    [at |-> x.draw,
     val |-> ReduceSum([i \in DOMAIN x.val |->
                 Sub(NormalLogProb(x.val[i], dist.loc[i], dist.scale[i]),
                     PriorLogProb(p, x.val[i]))])]

----------------------------------------------------------------------------
(* VarLinear *)

\* the outcomes of a call
Ok == "ok"
NotConnectedError == "NotConnectedError"
IncompatibleShapeError == "IncompatibleShapeError"
NameError == "NameError"
ValueError == "ValueError"
AttributeError == "AttributeError"
IndexError == "IndexError"

\* `raise base.IncompatibleShapeError(...)`: the module imports np, tf, tfp,
\* snt, eliminate_dead_neurons and list_slice; the name `base` is bound by
\* none of them, so evaluating it raises NameError before the shape error exists
RaiseShapeError == NameError

\* the variables one layer's scope holds; none before the first build
NoVariables == [w_mu |-> NoTensor, w_rho |-> NoTensor, b_mu |-> NoTensor, b_rho |-> NoTensor]

\* the mutant of VarLinear_init: the layer keeps a copy of the prior, an
\* object of its own
VarLinear_init_copy(id, slot, output_size, p, use_bias) ==
    [id |-> id, slot |-> slot, output_size |-> output_size,
     prior |-> [p EXCEPT !.id = id + 1],
     use_bias |-> use_bias, input_shape |-> 0, is_connected |-> FALSE,
     kl_divergence |-> 0, out_w |-> 0, kl_w |-> 0, out_b |-> 0, kl_b |-> 0, ndraws |-> 0]

\* VarLinear.__init__
VarLinear_init(id, slot, output_size, p, use_bias) ==
    [id |-> id, slot |-> slot, output_size |-> output_size, prior |-> p,
     use_bias |-> use_bias, input_shape |-> 0, is_connected |-> FALSE,
     kl_divergence |-> 0, out_w |-> 0, kl_w |-> 0, out_b |-> 0, kl_b |-> 0, ndraws |-> 0]

\* tf.matmul(inputs, w) for a one-row batch, then + b when there is a bias
MatMul(x, w, in, out) ==
    [j \in 1..out |-> SumOver([i \in 1..in |-> RoundDiv(x[i] * w[<<i, j>>], One)], in)]

\* the mutant of GetVariable: a new variable is made at every build
GetVariableAnew(held, initial) ==
    [err |-> Ok, var |-> initial]

\* tf.get_variable under the layer's scope: the variable of that name when
\* the scope holds one (its shape must be the one asked for), otherwise a new
\* one holding what the initializer gives for the shape
GetVariable(held, initial) ==
    IF held = NoTensor THEN [err |-> Ok, var |-> initial]
    ELSE IF DOMAIN held = DOMAIN initial THEN [err |-> Ok, var |-> held]
    ELSE [err |-> ValueError, var |-> held]

\* an exception that leaves the layer without the input width it was bound to
FailedUnbound(self, st, r, e) ==
    [err |-> e, self |-> [self EXCEPT !.input_shape = 0], st |-> st, rng |-> r,
     outputs |-> <<>>]

\* what a call of _build hands back: an exception leaves it, or it returns
Failed(self, st, r, e) ==
    [err |-> e, self |-> self, st |-> st, rng |-> r, outputs |-> <<>>]

Built(self, st, r, outputs) ==
    [err |-> Ok, self |-> self, st |-> st, rng |-> r, outputs |-> outputs]

\* mu_init and rho_init of _build, for a variable of the given shape
mu_init(shape, sd, slot, kind) == [i \in shape |-> GlorotUniform(sd, slot, kind, Flat(i))]
rho_init(shape) == [i \in shape |-> RhoInit]

\* VarLinear._build, read from its end to its start: every step takes what
\* the steps before it computed. self and st are the layer and the variables
\* of its scope, r0 the draws the generator had served when the pass began

\* self._kl_divergence += ...; outputs += b; return outputs
BiasAdded(self, st, xw, r0, b, kl_b) ==
    Built([self EXCEPT !.kl_divergence = Add(self.kl_divergence, kl_b.val),
                       !.out_b = b.draw, !.kl_b = kl_b.at, !.ndraws = b.draw - r0],
          st, b.draw, [j \in DOMAIN xw |-> xw[j] + b.val[<<1, j>>]])

\* tf.reduce_sum(b_dist.log_prob(b) - self.prior.log_prob(b)) at the sample b
BiasSampled(self, st, xw, sd, r0, b_dist, b) ==
    BiasAdded(self, st, xw, r0, b, KlTerm(b_dist, b, self.prior, sd))

\* b = b_dist.sample()
BiasDist(self, st, xw, sd, r0, r, b_dist) ==
    BiasSampled(self, st, xw, sd, r0, b_dist, Sample(b_dist, sd, r))

\* self._b_mu, self._b_rho = what tf.get_variable gave; b_dist
BiasVariables(self, st, xw, sd, r0, r, gb_mu, gb_rho) ==
    IF gb_mu.err # Ok THEN Failed(self, st, r, gb_mu.err)
    ELSE IF gb_rho.err # Ok
         THEN Failed(self, [st EXCEPT !.b_mu = gb_mu.var], r, gb_rho.err)
    ELSE BiasDist(self, [st EXCEPT !.b_mu = gb_mu.var, !.b_rho = gb_rho.var],
                  xw, sd, r0, r, NormalDist(gb_mu.var, gb_rho.var))

\* if self._use_bias: ...; return outputs
WithBias(self, st, xw, sd, r0, r) ==
    IF ~self.use_bias THEN Built(self, st, r, xw)
    ELSE BiasVariables(self, st, xw, sd, r0, r,
             GetVariable(st.b_mu, mu_init(BiasShape(self.output_size), sd, self.slot, 2)),
             GetVariable(st.b_rho, rho_init(BiasShape(self.output_size))))

\* self._kl_divergence = ...; outputs = tf.matmul(inputs, w)
WeightUsed(self, st, inputs, sd, r0, w, kl_w) ==
    WithBias([self EXCEPT !.kl_divergence = kl_w.val,
                          !.out_w = w.draw, !.kl_w = kl_w.at,
                          !.out_b = 0, !.kl_b = 0, !.ndraws = w.draw - r0],
             st, MatMul(inputs.x, w.val, inputs.width, self.output_size), sd, r0, w.draw)

\* tf.reduce_sum(w_dist.log_prob(w) - self.prior.log_prob(w)) at the sample w
WeightSampled(self, st, inputs, sd, r0, w_dist, w) ==
    WeightUsed(self, st, inputs, sd, r0, w, KlTerm(w_dist, w, self.prior, sd))

\* w = w_dist.sample()
WeightDist(self, st, inputs, sd, r0, w_dist) ==
    WeightSampled(self, st, inputs, sd, r0, w_dist, Sample(w_dist, sd, r0))

\* self._w_mu, self._w_rho = what tf.get_variable gave; w_dist
WeightVariables(self, st, inputs, sd, r0, gw_mu, gw_rho) ==
    IF gw_mu.err # Ok THEN Failed(self, st, r0, gw_mu.err)
    ELSE IF gw_rho.err # Ok
         THEN Failed(self, [st EXCEPT !.w_mu = gw_mu.var], r0, gw_rho.err)
    ELSE WeightDist(self, [st EXCEPT !.w_mu = gw_mu.var, !.w_rho = gw_rho.var],
                    inputs, sd, r0, NormalDist(gw_mu.var, gw_rho.var))

\* VarLinear._build(inputs) of the layer self whose scope holds st, the
\* generator having served r draws; inputs = [rank, width, x], width 0 when
\* the last dimension is not known statically
VarLinear_build(self, st, inputs, sd, r) ==
    IF inputs.rank # 2 THEN Failed(self, st, r, RaiseShapeError)
    ELSE IF inputs.width = 0 THEN Failed(self, st, r, RaiseShapeError)
    ELSE IF self.input_shape # 0 /\ inputs.width # self.input_shape
         THEN Failed(self, st, r, RaiseShapeError)
    ELSE WeightVariables([self EXCEPT !.input_shape = inputs.width], st, inputs, sd, r,
             GetVariable(st.w_mu,
                         mu_init(WeightShape(inputs.width, self.output_size), sd, self.slot, 1)),
             GetVariable(st.w_rho, rho_init(WeightShape(inputs.width, self.output_size))))

\* the module counts as connected once _build has returned
Connected(res) ==
    IF res.err = Ok THEN [res EXCEPT !.self.is_connected = TRUE] ELSE res

\* snt.AbstractModule.__call__ around _build
VarLinear_call(self, st, inputs, sd, r) ==
    Connected(VarLinear_build(self, st, inputs, sd, r))


\* the mutant of EnsureIsConnected: the check is left out
EnsureNothing(obj_is_connected) == Ok

\* snt.AbstractModule._ensure_is_connected
EnsureIsConnected(obj_is_connected) ==
    IF obj_is_connected THEN Ok ELSE NotConnectedError

Sigma(rho) == [i \in DOMAIN rho |-> Softplus(rho[i])]

LayerProperties == {"kl_divergence", "w_mu", "w_rho", "w_sigma", "b_mu", "b_rho", "b_sigma"}

\* the properties of VarLinear; the bias attributes exist only on a layer
\* built with a bias
VarLinear_property(self, st, name) ==
    IF EnsureIsConnected(self.is_connected) # Ok
    THEN [err |-> EnsureIsConnected(self.is_connected),
          val |-> IF name = "kl_divergence" THEN 0 ELSE NoTensor]
    ELSE IF name \in {"b_mu", "b_rho", "b_sigma"} /\ ~self.use_bias
    THEN [err |-> AttributeError, val |-> NoTensor]
    ELSE [err |-> Ok,
          val |-> CASE name = "kl_divergence" -> self.kl_divergence
                    [] name = "w_mu" -> st.w_mu
                    [] name = "w_rho" -> st.w_rho
                    [] name = "w_sigma" -> Sigma(st.w_rho)
                    [] name = "b_mu" -> st.b_mu
                    [] name = "b_rho" -> st.b_rho
                    [] name = "b_sigma" -> Sigma(st.b_rho)]

\* the thresholds handed to prune_below_snr, with exp(snr / 10) as a fraction
SnrThresholds == {0, 100000}

ExpTenth(snr) == CASE snr = 0 -> <<1, 1>>
                   [] snr = 100000 -> <<22026, 1>>

\* the mutant of SnrGreater: the comparison is >=
SnrGreaterEqual(mu, sigma, snr) ==
    IF Abs(mu) = 0 /\ sigma = 0 THEN FALSE
    ELSE IF sigma = 0 THEN TRUE
    ELSE IF Abs(mu) = 0 THEN FALSE
    ELSE Abs(mu) * ExpTenth(snr)[2] >= sigma * ExpTenth(snr)[1]

\* tf.math.greater(10. * tf.math.log(tf.abs(mu) / sigma), snr) of one entry.
\* log is increasing, so 10 log(a / s) > snr exactly when a / s > exp(snr / 10);
\* 0 / 0 is NaN and greater(NaN, snr) is False, a / 0 is +inf, log(0 / s) is -inf
SnrGreater(mu, sigma, snr) ==
    IF Abs(mu) = 0 /\ sigma = 0 THEN FALSE
    ELSE IF sigma = 0 THEN TRUE
    ELSE IF Abs(mu) = 0 THEN FALSE
    ELSE Abs(mu) * ExpTenth(snr)[2] > sigma * ExpTenth(snr)[1]

\* tf.cast(greater(...), tf.float32): 1.0 where kept, 0.0 where pruned
Mask(mu, rho, snr) ==
    [i \in DOMAIN mu |-> IF SnrGreater(mu[i], Softplus(rho[i]), snr) THEN One ELSE 0]

\* the mutant of MaskedRho: the inverse transform is forgotten
MaskedRhoRaw(rho, mask) ==
    [i \in DOMAIN rho |-> RoundDiv(Softplus(rho[i]) * mask[i], One)]

\* softplus_inverse(sigma * mask)
MaskedRho(rho, mask) ==
    [i \in DOMAIN rho |-> SoftplusInverse(RoundDiv(Softplus(rho[i]) * mask[i], One))]

\* mu * mask
MaskedMu(mu, mask) == [i \in DOMAIN mu |-> RoundDiv(mu[i] * mask[i], One)]

\* a masking of the weight means that leaves the raw scales alone
MaskWeightMeans(st, w_mask) ==
    [st EXCEPT !.w_mu = MaskedMu(st.w_mu, w_mask)]

\* self._w_mu.assign(self._w_mu * w_mask); self._w_rho.assign(...)
MaskWeight(st, w_mask) ==
    [st EXCEPT !.w_mu = MaskedMu(st.w_mu, w_mask), !.w_rho = MaskedRho(st.w_rho, w_mask)]

\* self._b_mu.assign(self._b_mu * b_mask); self._b_rho.assign(...)
MaskBias(st, b_mask) ==
    [st EXCEPT !.b_mu = MaskedMu(st.b_mu, b_mask), !.b_rho = MaskedRho(st.b_rho, b_mask)]

\* if self._use_bias: ...
PruneBias(self, st, snr) ==
    IF ~self.use_bias THEN [err |-> Ok, st |-> st]
    ELSE [err |-> Ok, st |-> MaskBias(st, Mask(st.b_mu, st.b_rho, snr))]

\* VarLinear.prune_below_snr(snr)
VarLinear_prune_below_snr(self, st, snr) ==
    IF EnsureIsConnected(self.is_connected) # Ok
    THEN [err |-> EnsureIsConnected(self.is_connected), st |-> st]
    ELSE PruneBias(self, MaskWeight(st, Mask(st.w_mu, st.w_rho, snr)), snr)

\* the entries of one layer's variables a call of prune_below_snr masks out
MaskedOut(slot, st, use_bias, snr) ==
    {<<slot, "w", i>> : i \in {j \in DOMAIN st.w_mu :
                                 ~SnrGreater(st.w_mu[j], Softplus(st.w_rho[j]), snr)}}
    \cup (IF use_bias
          THEN {<<slot, "b", i>> : i \in {j \in DOMAIN st.b_mu :
                                 ~SnrGreater(st.b_mu[j], Softplus(st.b_rho[j]), snr)}}
          ELSE {})

----------------------------------------------------------------------------
(* VarEstimator and the networks built on it *)

Variants == {"VarLinear", "VarMNIST", "VarRegression", "VarMushroomRL"}
Networks == Variants \ {"VarLinear"}

\* snt.BatchFlatten: [batch, d1, d2, ...] becomes [batch, d1 * d2 * ...]
BatchFlatten(inputs) == [rank |-> 2, width |-> inputs.width, x |-> inputs.x]

\* tf.nn.relu
Relu(y) == [j \in DOMAIN y |-> Max(y[j], 0)]

AsInputs(y) == [rank |-> 2, width |-> Len(y), x |-> y]

NetFailed(net_layers, stores, r, e) ==
    [err |-> e, layers |-> net_layers, store |-> stores, rng |-> r, logits |-> <<>>,
     made |-> 0]

\* the _build shared by VarMNIST, VarRegression and VarMushroomRL, read from
\* its end to its start: three new VarLinear modules, connected in turn;
\* self._layers is assigned last. c1, c2, c3 are what the three calls gave

\* logits = linear_out(dense); self._layers = [...]; return logits
OutputCalled(net_layers, c1, c2, c3) ==
    IF c3.err # Ok THEN NetFailed(net_layers, <<c1.st, c2.st, c3.st>>, c3.rng, c3.err)
    ELSE [err |-> Ok, layers |-> <<c1.self, c2.self, c3.self>>,
          store |-> <<c1.st, c2.st, c3.st>>, rng |-> c3.rng, logits |-> c3.outputs,
          made |-> 3]

\* dense = tf.nn.relu(linear_2(dense)); linear_out = VarLinear(...)
SecondCalled(out_size, p, net_layers, stores, sd, id0, c1, c2) ==
    IF c2.err # Ok THEN NetFailed(net_layers, <<c1.st, c2.st, stores[3]>>, c2.rng, c2.err)
    ELSE OutputCalled(net_layers, c1, c2,
             VarLinear_call(VarLinear_init(id0 + 2, 3, out_size, p, TRUE), stores[3],
                            AsInputs(Relu(c2.outputs)), sd, c2.rng))

\* dense = tf.nn.relu(linear_1(flattened)); linear_2 = VarLinear(...)
FirstCalled(out_size, n_units, p, net_layers, stores, sd, id0, c1) ==
    IF c1.err # Ok THEN NetFailed(net_layers, [stores EXCEPT ![1] = c1.st], c1.rng, c1.err)
    ELSE SecondCalled(out_size, p, net_layers, stores, sd, id0, c1,
             VarLinear_call(VarLinear_init(id0 + 1, 2, n_units, p, TRUE), stores[2],
                            AsInputs(Relu(c1.outputs)), sd, c1.rng))

Network_build(out_size, n_units, p, net_layers, stores, inputs, sd, r, id0) ==
    FirstCalled(out_size, n_units, p, net_layers, stores, sd, id0,
        VarLinear_call(VarLinear_init(id0, 1, n_units, p, TRUE), stores[1],
                       BatchFlatten(inputs), sd, r))

VarMNIST_build(n_units, p, net_layers, stores, inputs, sd, r, id0) ==
    Network_build(10, n_units, p, net_layers, stores, inputs, sd, r, id0)

VarRegression_build(n_units, p, net_layers, stores, inputs, sd, r, id0) ==
    Network_build(1, n_units, p, net_layers, stores, inputs, sd, r, id0)

VarMushroomRL_build(n_units, p, net_layers, stores, inputs, sd, r, id0) ==
    Network_build(1, n_units, p, net_layers, stores, inputs, sd, r, id0)

Build(v, n_units, p, net_layers, stores, inputs, sd, r, id0) ==
    CASE v = "VarMNIST" -> VarMNIST_build(n_units, p, net_layers, stores, inputs, sd, r, id0)
      [] v = "VarRegression" ->
             VarRegression_build(n_units, p, net_layers, stores, inputs, sd, r, id0)
      [] v = "VarMushroomRL" ->
             VarMushroomRL_build(n_units, p, net_layers, stores, inputs, sd, r, id0)

\* the mutant of SumKl: the sum keeps the first layer's term only
SumKlFirst(net_layers) ==
    IF net_layers = <<>> THEN 0 ELSE net_layers[1].kl_divergence

\* sum([layer.kl_divergence for layer in self._layers])
RECURSIVE SumKl(_)
SumKl(net_layers) ==
    IF net_layers = <<>> THEN 0
    ELSE Add(Head(net_layers).kl_divergence, SumKl(Tail(net_layers)))

\* VarEstimator.kl_divergence
VarEstimator_kl_divergence(net_connected, net_layers) ==
    IF EnsureIsConnected(net_connected) # Ok
    THEN [err |-> EnsureIsConnected(net_connected), val |-> 0]
    ELSE [err |-> Ok, val |-> SumKl(net_layers)]

\* a concatenation layer by layer: each layer's weights followed by its biases
ParamVectorByLayer(ws, bs) ==
    Concat([k \in 1..Len(ws) |-> FlatW(ws[k]) \o FlatB(bs[k])])

\* tf.concat of every layer's flattened weights, then every layer's flattened biases
ParamVector(ws, bs) ==
    Concat([k \in 1..Len(ws) |-> FlatW(ws[k])]) \o Concat([k \in 1..Len(bs) |-> FlatB(bs[k])])

\* VarEstimator.mu_vector
VarEstimator_mu_vector(net_connected, net_layers, stores) ==
    IF EnsureIsConnected(net_connected) # Ok
    THEN [err |-> EnsureIsConnected(net_connected), val |-> <<>>]
    ELSE [err |-> Ok,
          val |-> ParamVector([k \in 1..Len(net_layers) |-> stores[net_layers[k].slot].w_mu],
                              [k \in 1..Len(net_layers) |-> stores[net_layers[k].slot].b_mu])]

\* VarEstimator.sigma_vector
VarEstimator_sigma_vector(net_connected, net_layers, stores) ==
    IF EnsureIsConnected(net_connected) # Ok
    THEN [err |-> EnsureIsConnected(net_connected), val |-> <<>>]
    ELSE [err |-> Ok,
          val |-> ParamVector(
                      [k \in 1..Len(net_layers) |-> Sigma(stores[net_layers[k].slot].w_rho)],
                      [k \in 1..Len(net_layers) |-> Sigma(stores[net_layers[k].slot].b_rho)])]

\* Normal(loc = mu, scale = sigma).sample() of the two vectors read
SampleVector(mu, sigma, sd, r) ==
    IF mu.err # Ok THEN [err |-> mu.err, val |-> <<>>, rng |-> r]
    ELSE IF sigma.err # Ok THEN [err |-> sigma.err, val |-> <<>>, rng |-> r]
    ELSE [err |-> Ok, rng |-> r + 1,
          val |-> [n \in 1..Len(mu.val) |->
                      mu.val[n] + RoundDiv(sigma.val[n] * Epsilon(sd, r + 1, n), One)]]

\* VarEstimator.sample_posterior: Normal(mu_vector, sigma_vector).sample()
VarEstimator_sample_posterior(net_connected, net_layers, stores, sd, r) ==
    SampleVector(VarEstimator_mu_vector(net_connected, net_layers, stores),
                 VarEstimator_sigma_vector(net_connected, net_layers, stores), sd, r)

\* the loop of VarEstimator.prune_below_snr over self._layers, from layer k
\* on; one is what layer k's prune_below_snr gave
RECURSIVE PruneLayers(_, _, _, _)

PrunedOne(net_layers, stores, snr, k, one) ==
    IF one.err # Ok THEN [err |-> one.err, store |-> stores]
    ELSE PruneLayers(net_layers, [stores EXCEPT ![net_layers[k].slot] = one.st], snr, k + 1)

PruneLayers(net_layers, stores, snr, k) ==
    IF k > Len(net_layers) THEN [err |-> Ok, store |-> stores]
    ELSE PrunedOne(net_layers, stores, snr, k,
             VarLinear_prune_below_snr(net_layers[k], stores[net_layers[k].slot], snr))

\* VarEstimator.prune_below_snr(snr)
VarEstimator_prune_below_snr(net_connected, net_layers, stores, snr) ==
    IF EnsureIsConnected(net_connected) # Ok
    THEN [err |-> EnsureIsConnected(net_connected), store |-> stores]
    ELSE PruneLayers(net_layers, stores, snr, 1)

----------------------------------------------------------------------------
(* Compression *)

RECURSIVE SortedSeq(_)
SortedSeq(S) ==
    IF S = {} THEN <<>>
    ELSE LET m == CHOOSE x \in S : \A y \in S : x <= y
         IN <<m>> \o SortedSeq(S \ {m})

\* the rows and columns of t listed in rows and cols, in that order
Trim(t, rows, cols) ==
    [i \in (1..Len(rows)) \X (1..Len(cols)) |-> t[<<rows[i[1]], cols[i[2]]>>]]

\* compression.eliminate_dead_neurons on the layers of a built network.
\* An entry is dead when its mean and scale are both zero. An input is kept
\* unless its row of the first weight is dead; a hidden neuron is dropped only
\* when its incoming column and bias and its outgoing row are all dead; every
\* output of the last layer is kept. input_indices are 0-based positions.
eliminate_dead_neurons(w_mus, w_sigmas, b_mus, b_sigmas) ==
    LET n == Len(w_mus)
        ZeroAt(k, i) == w_mus[k][i] = 0 /\ w_sigmas[k][i] = 0
        RowDead(k, r) == \A c \in 1..OutWidth(w_mus[k]) : ZeroAt(k, <<r, c>>)
        ColDead(k, c) == /\ \A r \in 1..InWidth(w_mus[k]) : ZeroAt(k, <<r, c>>)
                         /\ b_mus[k][<<1, c>>] = 0
                         /\ b_sigmas[k][<<1, c>>] = 0
        KeepOut(k) == IF k = n THEN 1..OutWidth(w_mus[k])
                      ELSE {c \in 1..OutWidth(w_mus[k]) : ~(ColDead(k, c) /\ RowDead(k + 1, c))}
        KeepIn(k) == IF k = 1 THEN {r \in 1..InWidth(w_mus[1]) : ~RowDead(1, r)}
                     ELSE KeepOut(k - 1)
        rows(k) == SortedSeq(KeepIn(k))
        cols(k) == SortedSeq(KeepOut(k))
    IN [input_indices |-> [m \in 1..Len(rows(1)) |-> rows(1)[m] - 1],
        w_mus |-> [k \in 1..n |-> Trim(w_mus[k], rows(k), cols(k))],
        w_sigmas |-> [k \in 1..n |-> Trim(w_sigmas[k], rows(k), cols(k))],
        b_mus |-> [k \in 1..n |-> Trim(b_mus[k], <<1>>, cols(k))],
        b_sigmas |-> [k \in 1..n |-> Trim(b_sigmas[k], <<1>>, cols(k))]]

\* what eliminate_dead_neurons hands back for a network without layers, when
\* it hands anything back
EliminatedNothing ==
    [input_indices |-> <<>>, w_mus |-> <<>>, w_sigmas |-> <<>>, b_mus |-> <<>>,
     b_sigmas |-> <<>>]

\* ReducedVarMNIST.__init__
ReducedVarMNIST_init(id, input_indices, w_mus, w_sigmas, b_mus, b_sigmas, p) ==
    [id |-> id, prior |-> p, layers |-> <<>>, is_connected |-> FALSE,
     store |-> [k \in 1..3 |-> NoVariables],
     w_mus |-> w_mus, w_sigmas |-> w_sigmas, b_mus |-> b_mus, b_sigmas |-> b_sigmas,
     input_indices |-> input_indices]

NoReduced == [id |-> 0]

\* object identities: the network under test, and a network constructed
\* while it is alive
SelfId == 1
NewNetworkId == 2

\* reduced_model = ReducedVarMNIST(...) on what eliminate_dead_neurons gave
Reduced(e, p, id) ==
    ReducedVarMNIST_init(id, e.input_indices, e.w_mus, e.w_sigmas, e.b_mus, e.b_sigmas, p)

\* `return reduced_model`: the values compress hands to its caller, in order
compress_return(reduced_model) == <<reduced_model>>

\* VarEstimator.compress: the layers' tensors are read through the layers'
\* properties; self is not checked for being connected. emptied is what
\* eliminate_dead_neurons does with empty lists: it raises, or it returns
VarEstimator_compress(net_layers, stores, p, id, emptied) ==
    IF net_layers = <<>>
    THEN IF emptied = "raises" THEN [err |-> IndexError, val |-> NoReduced]
         ELSE [err |-> Ok, val |-> Reduced(EliminatedNothing, p, id)]
    ELSE [err |-> Ok,
          val |-> Reduced(eliminate_dead_neurons(
                      [k \in 1..Len(net_layers) |-> stores[net_layers[k].slot].w_mu],
                      [k \in 1..Len(net_layers) |-> Sigma(stores[net_layers[k].slot].w_rho)],
                      [k \in 1..Len(net_layers) |-> stores[net_layers[k].slot].b_mu],
                      [k \in 1..Len(net_layers) |-> Sigma(stores[net_layers[k].slot].b_rho)]),
                   p, id)]

----------------------------------------------------------------------------
(* The reduced network compress() hands back *)

\* utils.list_slice(flattened, indices, axis=1): the columns of the batch at
\* the 0-based positions listed, in the order listed
list_slice(inputs, indices) ==
    [rank |-> inputs.rank, width |-> Len(indices),
     x |-> [m \in 1..Len(indices) |-> inputs.x[indices[m] + 1]]]

\* num_units = [w.shape[1] for w in self._w_mus]
num_units(self) == [k \in 1..Len(self.w_mus) |-> OutWidth(self.w_mus[k])]

\* ReducedVarMNIST._build: the statements of VarMNIST._build on the sliced
\* input, the hidden layers as wide as the trimmed weights, the output layer
\* 10 wide; num_units[0] of an empty list raises IndexError
ReducedVarMNIST_build(self, inputs, sd, r, id0) ==
    IF Len(self.w_mus) < 2 THEN NetFailed(self.layers, self.store, r, IndexError)
    ELSE FirstCalled(10, num_units(self)[2], self.prior, self.layers, self.store, sd, id0,
             VarLinear_call(VarLinear_init(id0, 1, num_units(self)[1], self.prior, TRUE),
                            self.store[1],
                            list_slice(BatchFlatten(inputs), self.input_indices), sd, r))

\* the reduced network after a call of it
ReducedCalled(self, res) ==
    [self EXCEPT !.layers = res.layers, !.store = res.store,
                 !.is_connected = (self.is_connected \/ res.err = Ok)]

\* the mutant of AssignLayer: only the means are transplanted
AssignLayerMeans(st, w_mu, b_mu, w_sigma, b_sigma) ==
    IF DOMAIN w_mu # DOMAIN st.w_mu THEN [err |-> ValueError, st |-> st]
    ELSE IF DOMAIN b_mu # DOMAIN st.b_mu
         THEN [err |-> ValueError, st |-> [st EXCEPT !.w_mu = w_mu]]
    ELSE [err |-> Ok, st |-> [st EXCEPT !.w_mu = w_mu, !.b_mu = b_mu]]

\* the four tf.assign of one round of the loop of assign_params, on the
\* variables st of one layer: w_mu, b_mu, then w_rho and b_rho from
\* softplus_inverse of the scales; tf.assign refuses a value of another shape
AssignLayer(st, w_mu, b_mu, w_sigma, b_sigma) ==
    IF DOMAIN w_mu # DOMAIN st.w_mu THEN [err |-> ValueError, st |-> st]
    ELSE IF DOMAIN b_mu # DOMAIN st.b_mu
         THEN [err |-> ValueError, st |-> [st EXCEPT !.w_mu = w_mu]]
    ELSE IF DOMAIN w_sigma # DOMAIN st.w_rho
         THEN [err |-> ValueError, st |-> [st EXCEPT !.w_mu = w_mu, !.b_mu = b_mu]]
    ELSE IF DOMAIN b_sigma # DOMAIN st.b_rho
         THEN [err |-> ValueError,
               st |-> [st EXCEPT !.w_mu = w_mu, !.b_mu = b_mu,
                                 !.w_rho = [i \in DOMAIN w_sigma |-> SoftplusInverse(w_sigma[i])]]]
    ELSE [err |-> Ok,
          st |-> [w_mu |-> w_mu, b_mu |-> b_mu,
                  w_rho |-> [i \in DOMAIN w_sigma |-> SoftplusInverse(w_sigma[i])],
                  b_rho |-> [i \in DOMAIN b_sigma |-> SoftplusInverse(b_sigma[i])]]]

\* the loop of assign_params over enumerate(self._layers), from layer k on;
\* one is what the round of layer k gave, done the number of layers whose
\* four variables were assigned
RECURSIVE AssignLayers(_, _, _)

AssignedOne(self, stores, k, one) ==
    IF one.err # Ok
    THEN [err |-> one.err, store |-> [stores EXCEPT ![self.layers[k].slot] = one.st],
          done |-> k - 1]
    ELSE AssignLayers(self, [stores EXCEPT ![self.layers[k].slot] = one.st], k + 1)

AssignLayers(self, stores, k) ==
    IF k > Len(self.layers) THEN [err |-> Ok, store |-> stores, done |-> k - 1]
    ELSE AssignedOne(self, stores, k,
             AssignLayer(stores[self.layers[k].slot], self.w_mus[k], self.b_mus[k],
                         self.w_sigmas[k], self.b_sigmas[k]))

\* ReducedVarMNIST.assign_params
ReducedVarMNIST_assign_params(self) == AssignLayers(self, self.store, 1)

\* the side of the array get_unused_input_mask makes: np.zeros((28 * 28,))
MaskSide == 28

\* ReducedVarMNIST.get_unused_input_mask: mask[self._input_indices] = 1 on
\* zeros, then reshape((28, 28)), row-major
ReducedVarMNIST_get_unused_input_mask(self) ==
    [i \in (0..(MaskSide - 1)) \X (0..(MaskSide - 1)) |->
        IF \E m \in 1..Len(self.input_indices) :
              self.input_indices[m] = MaskSide * i[1] + i[2]
        THEN 1 ELSE 0]

----------------------------------------------------------------------------
(* The training step *)

\* one entry of the step optimizer.apply_gradients takes off a variable
\* the gradients are a function of the pass the tape recorded, g its last draw
MuStep(g, slot, i) == (((g + slot + Flat(i)) % 3) - 1) * 49
RhoStep(g, slot, i) == (((g + 2 * slot + Flat(i)) % 3) - 1) * 300

\* optimizer.apply_gradients(zip(grads, agent.get_all_variables())): every
\* variable moves by its step
apply_gradients(stores, g) ==
    [slot \in DOMAIN stores |->
        [w_mu |-> [i \in DOMAIN stores[slot].w_mu |->
                      stores[slot].w_mu[i] - MuStep(g, slot, i)],
         b_mu |-> [i \in DOMAIN stores[slot].b_mu |->
                      stores[slot].b_mu[i] - MuStep(g + 1, slot, i)],
         w_rho |-> [i \in DOMAIN stores[slot].w_rho |->
                      stores[slot].w_rho[i] - RhoStep(g, slot, i)],
         b_rho |-> [i \in DOMAIN stores[slot].b_rho |->
                      stores[slot].b_rho[i] - RhoStep(g + 1, slot, i)]]]

----------------------------------------------------------------------------
(* The state machine: one module under test, a standalone VarLinear or one   *)
(* of the networks, and the calls a driver makes on it                       *)

\* an object: what a constructor returned, with the identity that tells it
\* from every other object, equal or not
Constructed(id, object) == object @@ [id |-> id]

\* the identity of the prior, the first object a driver constructs
PriorId == 0

\* the prior the drivers construct: reinforcement_learning.run builds the
\* agent's, the others come from create_gaussian_prior
PriorOf(v) == Constructed(PriorId, IF v = "VarMushroomRL" THEN AgentPrior
                                   ELSE create_gaussian_prior([mu |-> 0, sigma |-> 0]))

\* a batch of one row of ones; width 0 stands for an unknown last dimension
Inputs(rank, width) == [rank |-> rank, width |-> width, x |-> [i \in 1..width |-> One]]

Returned(op, arg, err, val) ==
    [op |-> op, arg |-> arg, err |-> err, val |-> val]

Init ==
    /\ variant \in Variants
    /\ prior = PriorOf(variant)
    /\ units = Units
    /\ seed \in 1..NSeeds
    /\ rng = 0
    /\ nextId = 2
    /\ \E use_bias \in BOOLEAN :
          layers = IF variant = "VarLinear"
                   THEN <<VarLinear_init(1, 1, units, prior, use_bias)>>
                   ELSE <<>>
    /\ is_connected = FALSE
    /\ store = [k \in 1..3 |-> NoVariables]
    /\ logits = <<>>
    /\ ret = [op |-> "init", arg |-> 0, err |-> Ok, val |-> 0]
    /\ completed = 0
    /\ passes = 0
    /\ masked = {}

\* layer(inputs) on the standalone layer
LayerForward(rank, width) ==
    /\ variant = "VarLinear"
    /\ passes < MaxPasses
    /\ \E res \in {VarLinear_call(layers[1], store[1], Inputs(rank, width), seed, rng)} :
          /\ layers' = <<res.self>>
          /\ store' = [store EXCEPT ![1] = res.st]
          /\ rng' = res.rng
          /\ logits' = IF res.err = Ok THEN res.outputs ELSE logits
          /\ completed' = IF res.err = Ok THEN completed + 1 ELSE completed
          /\ passes' = IF res.err = Ok THEN passes + 1 ELSE passes
          /\ ret' = Returned("layer_forward", <<rank, width>>, res.err, res.outputs)
    /\ UNCHANGED <<variant, prior, units, seed, nextId, is_connected, masked>>

\* reading a property of the k-th layer
LayerRead(k, name) ==
    /\ variant = "VarLinear"
    /\ k \in 1..Len(layers)
    /\ \E res \in {VarLinear_property(layers[k], store[layers[k].slot], name)} :
          ret' = Returned("layer_" \o name, k, res.err, res.val)
    /\ UNCHANGED <<variant, prior, units, seed, rng, nextId, layers, is_connected,
                   store, logits, completed, passes, masked>>

\* the mutant of LayerPrune: the call prunes every layer there is
LayerPruneAll(k, snr) ==
    /\ k \in 1..Len(layers)
    /\ \E res \in {PruneLayers(layers, store, snr, 1)} :
          /\ store' = res.store
          /\ masked' = masked \cup UNION {MaskedOut(layers[j].slot, store[layers[j].slot],
                                                    layers[j].use_bias, snr) :
                                          j \in 1..Len(layers)}
          /\ ret' = Returned("layer_prune_below_snr", <<k, snr>>, res.err, 0)
    /\ UNCHANGED <<variant, prior, units, seed, rng, nextId, layers, is_connected,
                   logits, completed, passes>>

\* layer.prune_below_snr(snr) on the k-th layer: the standalone layer, or one
\* of the layers of a network. The runs explored prune a single layer of a
\* network after the passes of the run are made, while it holds no masked entry
LayerPrune(k, snr) ==
    /\ k \in 1..Len(layers)
    /\ variant \in Networks => (masked = {} /\ passes = MaxPasses)
    /\ \E res \in {VarLinear_prune_below_snr(layers[k], store[layers[k].slot], snr)} :
          /\ store' = [store EXCEPT ![layers[k].slot] = res.st]
          /\ masked' = IF res.err = Ok
                       THEN masked \cup MaskedOut(layers[k].slot, store[layers[k].slot],
                                                  layers[k].use_bias, snr)
                       ELSE masked
          /\ ret' = Returned("layer_prune_below_snr", <<k, snr>>, res.err, 0)
    /\ UNCHANGED <<variant, prior, units, seed, rng, nextId, layers, is_connected,
                   logits, completed, passes>>

\* network(inputs)
Forward(rank, width) ==
    /\ variant \in Networks
    /\ passes < MaxPasses
    /\ \E res \in {Build(variant, units, prior, layers, store, Inputs(rank, width),
                        seed, rng, nextId)} :
          /\ layers' = res.layers
          /\ store' = res.store
          /\ rng' = res.rng
          /\ nextId' = nextId + res.made
          /\ is_connected' = (is_connected \/ res.err = Ok)
          /\ logits' = IF res.err = Ok THEN res.logits ELSE logits
          /\ completed' = IF res.err = Ok THEN completed + 1 ELSE completed
          /\ passes' = IF res.err = Ok THEN passes + 1 ELSE passes
          /\ ret' = Returned("forward", <<rank, width>>, res.err, res.logits)
    /\ UNCHANGED <<variant, prior, units, seed, masked>>

\* reading network.kl_divergence, network.mu_vector or network.sigma_vector
NetRead(name) ==
    /\ variant \in Networks
    /\ \E res \in {CASE name = "kl_divergence" ->
                          VarEstimator_kl_divergence(is_connected, layers)
                    [] name = "mu_vector" ->
                          VarEstimator_mu_vector(is_connected, layers, store)
                    [] name = "sigma_vector" ->
                          VarEstimator_sigma_vector(is_connected, layers, store)} :
          ret' = Returned(name, 0, res.err, res.val)
    /\ UNCHANGED <<variant, prior, units, seed, rng, nextId, layers, is_connected,
                   store, logits, completed, passes, masked>>

\* network.sample_posterior()
SamplePosterior ==
    /\ variant \in Networks
    /\ passes < MaxPasses
    /\ \E res \in {VarEstimator_sample_posterior(is_connected, layers, store, seed, rng)} :
          /\ rng' = res.rng
          /\ passes' = IF res.err = Ok THEN passes + 1 ELSE passes
          /\ ret' = Returned("sample_posterior", 0, res.err, res.val)
    /\ UNCHANGED <<variant, prior, units, seed, nextId, layers, is_connected,
                   store, logits, completed, masked>>

\* network.prune_below_snr(snr)
Prune(snr) ==
    /\ variant \in Networks
    /\ \E res \in {VarEstimator_prune_below_snr(is_connected, layers, store, snr)} :
          /\ store' = res.store
          /\ masked' = IF res.err = Ok
                       THEN masked \cup UNION {MaskedOut(layers[k].slot, store[layers[k].slot],
                                                         layers[k].use_bias, snr) :
                                               k \in 1..Len(layers)}
                       ELSE masked
          /\ ret' = Returned("prune_below_snr", snr, res.err, 0)
    /\ UNCHANGED <<variant, prior, units, seed, rng, nextId, layers, is_connected,
                   logits, completed, passes>>

\* network.compress()
Compress ==
    /\ variant \in Networks
    /\ \E emptied \in (IF layers = <<>> THEN {"raises", "returns"} ELSE {"returns"}) :
          \E res \in {VarEstimator_compress(layers, store, prior, NewNetworkId, emptied)} :
             ret' = Returned("compress", 0, res.err, res.val)
    /\ UNCHANGED <<variant, prior, units, seed, rng, nextId, layers, is_connected,
                   store, logits, completed, passes, masked>>

\* the calls on a reduced network are made on the object the last call
\* handed back: compress(), or an earlier call on that object
ReducedOps == {"compress", "reduced_forward", "assign_params"}

HoldsReduced == ret.op \in ReducedOps /\ ret.val.id # 0

\* a width of 0 stands for an unknown dimension: the reduced networks called
\* are those that kept an input and a neuron of every hidden layer
KeptWidths(self) ==
    \/ self.w_mus = <<>>
    \/ /\ Len(self.input_indices) >= 1
       /\ \A k \in 1..Len(self.w_mus) : num_units(self)[k] >= 1

\* the layer objects a reduced network makes in its n-th pass are other objects
\* than every layer object of the network it was compressed from
ReducedLayerIds(n) == 3 * (MaxPasses + 1 + n) + 2

\* reduced(inputs): a batch as wide as the positions its input_indices name
ReducedForward(width) ==
    /\ variant \in Networks
    /\ HoldsReduced
    /\ passes < MaxPasses
    /\ KeptWidths(ret.val)
    /\ \A m \in 1..Len(ret.val.input_indices) : ret.val.input_indices[m] < width
    /\ \E res \in {ReducedVarMNIST_build(ret.val, Inputs(2, width), seed, rng,
                                             ReducedLayerIds(passes))} :
          /\ rng' = res.rng
          /\ passes' = IF res.err = Ok THEN passes + 1 ELSE passes
          /\ ret' = Returned("reduced_forward", width, res.err, ReducedCalled(ret.val, res))
    /\ UNCHANGED <<variant, prior, units, seed, nextId, layers, is_connected, store,
                   logits, completed, masked>>

\* reduced.assign_params()
AssignParams ==
    /\ variant \in Networks
    /\ HoldsReduced
    /\ \E res \in {ReducedVarMNIST_assign_params(ret.val)} :
          ret' = Returned("assign_params", res.done, res.err,
                          [ret.val EXCEPT !.store = res.store])
    /\ UNCHANGED <<variant, prior, units, seed, rng, nextId, layers, is_connected,
                   store, logits, completed, passes, masked>>

\* reduced.get_unused_input_mask()
GetUnusedInputMask ==
    /\ variant \in Networks
    /\ HoldsReduced
    /\ ret' = Returned("get_unused_input_mask", ret.val.input_indices, Ok,
                       ReducedVarMNIST_get_unused_input_mask(ret.val))
    /\ UNCHANGED <<variant, prior, units, seed, rng, nextId, layers, is_connected,
                   store, logits, completed, passes, masked>>

\* one pass of the loop body of update_agent: the forward pass under the
\* gradient tape, then optimizer.apply_gradients on all the agent's variables.
\* reinforcement_learning.run, the one caller, trains an agent it never
\* prunes: the steps are taken while no entry is masked out
UpdateAgent(width) ==
    /\ variant = "VarMushroomRL"
    /\ passes < MaxPasses
    /\ masked = {}
    /\ \E res \in {Build(variant, units, prior, layers, store, Inputs(2, width),
                        seed, rng, nextId)} :
          /\ layers' = res.layers
          /\ store' = IF res.err = Ok THEN apply_gradients(res.store, res.rng) ELSE res.store
          /\ rng' = res.rng
          /\ nextId' = nextId + res.made
          /\ is_connected' = (is_connected \/ res.err = Ok)
          /\ logits' = IF res.err = Ok THEN res.logits ELSE logits
          /\ completed' = IF res.err = Ok THEN completed + 1 ELSE completed
          /\ passes' = IF res.err = Ok THEN passes + 1 ELSE passes
          /\ ret' = Returned("update_agent", width, res.err, res.logits)
    /\ UNCHANGED <<variant, prior, units, seed, masked>>

Next ==
    \/ \E rank \in 1..3, width \in 0..MaxWidth : LayerForward(rank, width)
    \/ \E name \in LayerProperties : LayerRead(1, name)
    \/ \E k \in 1..3, snr \in SnrThresholds : LayerPrune(k, snr)
    \/ \E width \in 0..MaxWidth : Forward(2, width)
    \/ \E name \in {"kl_divergence", "mu_vector", "sigma_vector"} : NetRead(name)
    \/ SamplePosterior
    \/ \E snr \in SnrThresholds : Prune(snr)
    \/ Compress
    \/ \E width \in 1..MaxWidth : ReducedForward(width)
    \/ AssignParams
    \/ GetUnusedInputMask
    \/ \E width \in 1..MaxWidth : UpdateAgent(width)

Spec == Init /\ [][Next]_vars

----------------------------------------------------------------------------
(* The auxiliary functions the drivers call: the prior constructors, the     *)
(* model function of the baseline and the training objectives. Each call is  *)
(* one step; ret holds the call made and what it gave                        *)

\* the hyperparameters handed to the prior constructors
Locs == {-One, 0, One}
LogScales == {-5 * One, -One, 0, One, 5 * One}
MixProps == {-500, 0, 250, 500, One, 1500}

GaussianParams == [mu : Locs, sigma : LogScales]
MixtureParams == [mix_prop : MixProps, sigma1 : LogScales, sigma2 : LogScales]

\* create_mixture_prior: Mixture(Categorical(probs = [p, 1 - p]), two
\* zero-mean Normal components); the distributions are built with the
\* default validate_args = False, nothing is checked
create_mixture_prior(params) ==
    [kind |-> "Mixture",
     probs |-> <<params.mix_prop, One - params.mix_prop>>,
     components |-> <<[kind |-> "Normal", loc |-> 0, scale |-> Exp(-params.sigma1)],
                      [kind |-> "Normal", loc |-> 0, scale |-> Exp(-params.sigma2)]>>]

\* the modes of tf.estimator.ModeKeys
Modes == {"train", "eval", "infer"}

\* the dictionaries handed to baseline_model_fn: any of the three keys may be
\* missing
ParamKeys == {"learning_rate", "optimizer", "hidden_units"}

OptimizerNames == {"sgd", "adam", "rmsprop", "momentum"}

BaselineParams ==
    {[k \in keys |-> CASE k = "learning_rate" -> 1
                       [] k = "optimizer" -> o
                       [] k = "hidden_units" -> 2] :
        keys \in SUBSET ParamKeys, o \in OptimizerNames}

\* the outcomes of baseline_model_fn
MissingLearningRate == "KeyError: No learning rate specified!"
KeyError == "KeyError"

\* the three optimizers of the dictionary baseline_model_fn builds
Optimizers == {"sgd", "adam", "rmsprop"}

NothingBuilt == [optimizers |-> {}, model |-> FALSE, estimator_spec |-> "none"]

\* the mutant of baseline_model_fn: the test for the learning rate is left out
baseline_model_fn_unchecked(mode, params) ==
    IF "learning_rate" \notin DOMAIN params
    THEN [err |-> KeyError, val |-> NothingBuilt]
    ELSE IF "hidden_units" \notin DOMAIN params
    THEN [err |-> KeyError, val |-> [NothingBuilt EXCEPT !.optimizers = Optimizers]]
    ELSE [err |-> Ok,
          val |-> [optimizers |-> Optimizers, model |-> TRUE, estimator_spec |-> mode]]

\* old/baseline.py baseline_model_fn: the learning rate is looked for first,
\* then the three optimizers are made, then the model (create_model reads
\* params['hidden_units']), then the EstimatorSpec of the mode; TRAIN looks
\* params["optimizer"] up in the dictionary
baseline_model_fn(mode, params) ==
    IF "learning_rate" \notin DOMAIN params
    THEN [err |-> MissingLearningRate, val |-> NothingBuilt]
    ELSE IF "hidden_units" \notin DOMAIN params
    THEN [err |-> KeyError, val |-> [NothingBuilt EXCEPT !.optimizers = Optimizers]]
    ELSE IF mode = "infer"
    THEN [err |-> Ok,
          val |-> [optimizers |-> Optimizers, model |-> TRUE, estimator_spec |-> "infer"]]
    ELSE IF mode = "train" /\ "optimizer" \notin DOMAIN params
    THEN [err |-> KeyError,
          val |-> [optimizers |-> Optimizers, model |-> TRUE, estimator_spec |-> "none"]]
    ELSE IF mode = "train" /\ params["optimizer"] \notin Optimizers
    THEN [err |-> KeyError,
          val |-> [optimizers |-> Optimizers, model |-> TRUE, estimator_spec |-> "none"]]
    ELSE [err |-> Ok,
          val |-> [optimizers |-> Optimizers, model |-> TRUE, estimator_spec |-> mode]]

\* the product of two fixed-point numbers
Mul(a, b) == RoundDiv(a * b, One)

\* the per-layer KL divergences, the coefficients and the negative
\* log-likelihoods handed to the objectives
KlValues == {-2 * One, 0, 3 * One}
KlLists == [1..3 -> KlValues]
KlCoeffs == {0, 250, 500, One}
NllValues == {0, 1500}
NumBatches == {1, 2, 4}

\* sum(kl_divergences)
SumList(kls) == SumOver(kls, Len(kls))

\* old/variational.py ELBO_with_logits; nll is what the reduce_sum of the
\* softmax cross-entropy gave
ELBO_with_logits(nll, kl_divergences, kl_coeff) ==
    [elbo |-> Mul(kl_coeff, SumList(kl_divergences)) + nll,
     kl_divergence |-> SumList(kl_divergences),
     negative_log_likelihood |-> nll]

\* old/variational.py ELBO_with_Gaussian_prior; nll is what the sum over the
\* predictions gave
ELBO_with_Gaussian_prior(nll, kl_divergences, kl_coeff) ==
    [elbo |-> Mul(kl_coeff, SumList(kl_divergences)) + nll,
     kl_divergence |-> Mul(kl_coeff, SumList(kl_divergences)),
     negative_log_likelihood |-> nll]

\* old/variational.py ELBO_with_MSE: kl_divergence = kl_coeff * sum(...), then
\* elbo = kl_coeff * kl_divergence + negative_log_likelihood
ELBO_with_MSE(nll, kl_divergences, kl_coeff) ==
    [elbo |-> Mul(kl_coeff, Mul(kl_coeff, SumList(kl_divergences))) + nll,
     kl_divergence |-> Mul(kl_coeff, SumList(kl_divergences)),
     negative_log_likelihood |-> nll]

\* the loss of update_agent: kl_coeff = 1. / num_batches;
\* loss = kl_coeff * agent.kl_divergence + agent.negative_log_likelihood(...)
update_agent_loss(nll, kl_divergences, kl_coeff) ==
    [elbo |-> Mul(kl_coeff, SumKl([k \in 1..Len(kl_divergences) |->
                                      [kl_divergence |-> kl_divergences[k]]])) + nll,
     kl_divergence |-> SumList(kl_divergences),
     negative_log_likelihood |-> nll]

Objectives == {"ELBO_with_logits", "ELBO_with_Gaussian_prior", "ELBO_with_MSE"}

\* the most rows a replay buffer handed to update_agent holds
MaxRows == 130

\* batch_size=64, the default of rl_input_fn, and config["batch_size"] of run
DefaultBatchSize == 64
ConfigBatchSize == 64

RunConfig == [batch_size |-> ConfigBatchSize]

\* rl_input_fn: the dataset of n rows after ds.batch(batch_size), as the
\* numbers of rows of its batches; the last batch holds the rows left over
rl_input_fn(n, batch_size) ==
    [k \in 1..(n \div batch_size) |-> batch_size]
        \o (IF n % batch_size > 0 THEN <<n % batch_size>> ELSE <<>>)

\* update_agent on a replay buffer of n rows: num_batches, and for every
\* batch the loop iterates over the kl_coeff = 1. / num_batches of its loss,
\* as numerator and denominator
update_agent(n, config) ==
    LET num_batches == (n \div config.batch_size) + 1
    IN [num_batches |-> num_batches,
        kl_coeffs |-> [k \in 1..Len(rl_input_fn(n, DefaultBatchSize)) |-> <<1, num_batches>>]]

\* num_thompson_samples=2, the default of get_action
NumThompsonSamples == 2

\* the actions: 0 is not to eat, 1 is to eat
Arms == {0, 1}

\* agent(inputs) of one Thompson sample: a reward prediction for a context
\* with the one-hot encoding of an action; np.random.uniform on [0, 1)
Predictions == {-One, 0, One}
Uniforms == {0, 500, One - 1}
Epsilons == {0, 500, One}

\* the sum get_action accumulates for arm a of context c, from its start
\* value: no_eat_rewards = 0 and eat_rewards = 1
RECURSIVE Accumulated(_, _, _, _, _)
Accumulated(agent, c, a, start, i) ==
    IF i = 0 THEN start
    ELSE Accumulated(agent, c, a, start, i - 1) + agent[<<c, i, a>>]

\* np.argmax(rewards, axis=1) of the rows [no_eat, eat]: the first maximum
ArgMax(no_eat, eat) == IF eat > no_eat THEN 1 ELSE 0

\* get_action(agent, context, epsilon): agent gives the prediction of the
\* i-th sample for context c and arm a, uniform and rand_actions are the
\* draws of np.random.uniform and np.random.choice
get_action(agent, num_contexts, epsilon, uniform, rand_actions) ==
    [c \in 1..num_contexts |->
        IF uniform[c] < epsilon THEN rand_actions[c]
        ELSE ArgMax(Accumulated(agent, c, 0, 0, NumThompsonSamples),
                    Accumulated(agent, c, 1, One, NumThompsonSamples))]

\* no network is touched by these calls
NetworkUnchanged ==
    UNCHANGED <<variant, prior, units, seed, rng, nextId, layers, is_connected,
                store, logits, completed, passes, masked>>

FunctionsInit ==
    /\ variant = "VarMNIST"
    /\ prior = PriorOf(variant)
    /\ units = Units
    /\ seed = 1
    /\ rng = 0
    /\ nextId = 2
    /\ layers = <<>>
    /\ is_connected = FALSE
    /\ store = [k \in 1..3 |-> NoVariables]
    /\ logits = <<>>
    /\ ret = [op |-> "init", arg |-> 0, err |-> Ok, val |-> 0]
    /\ completed = 0
    /\ passes = 0
    /\ masked = {}

CreateGaussianPrior(params) ==
    /\ ret' = Returned("create_gaussian_prior", params, Ok, create_gaussian_prior(params))
    /\ NetworkUnchanged

CreateMixturePrior(params) ==
    /\ ret' = Returned("create_mixture_prior", params, Ok, create_mixture_prior(params))
    /\ NetworkUnchanged

BaselineModelFn(mode, params) ==
    /\ \E res \in {baseline_model_fn(mode, params)} :
          ret' = Returned("baseline_model_fn", <<mode, params>>, res.err, res.val)
    /\ NetworkUnchanged

Objective(name, nll, kl_divergences, kl_coeff) ==
    /\ ret' = Returned(name, <<nll, kl_divergences, kl_coeff>>, Ok,
                       CASE name = "ELBO_with_logits" ->
                               ELBO_with_logits(nll, kl_divergences, kl_coeff)
                         [] name = "ELBO_with_Gaussian_prior" ->
                               ELBO_with_Gaussian_prior(nll, kl_divergences, kl_coeff)
                         [] name = "ELBO_with_MSE" ->
                               ELBO_with_MSE(nll, kl_divergences, kl_coeff))
    /\ NetworkUnchanged

UpdateAgentLoss(num_batches, nll, kl_divergences) ==
    /\ ret' = Returned("update_agent_loss",
                       <<nll, kl_divergences, RoundDiv(One * One, num_batches * One)>>, Ok,
                       update_agent_loss(nll, kl_divergences,
                                         RoundDiv(One * One, num_batches * One)))
    /\ NetworkUnchanged

\* update_agent(agent, optimizer, contexts, rewards, epoch, config) on a replay
\* buffer of n rows
UpdateAgentEpoch(n) ==
    /\ ret' = Returned("update_agent", n, Ok, update_agent(n, RunConfig))
    /\ NetworkUnchanged

\* get_action(agent, context, epsilon) for one context
GetAction(agent, epsilon, uniform, rand_action) ==
    /\ ret' = Returned("get_action", [agent |-> agent, epsilon |-> epsilon], Ok,
                       get_action(agent, 1, epsilon, <<uniform>>, <<rand_action>>))
    /\ NetworkUnchanged

FunctionsNext ==
    \/ \E params \in GaussianParams : CreateGaussianPrior(params)
    \/ \E params \in MixtureParams : CreateMixturePrior(params)
    \/ \E mode \in Modes, params \in BaselineParams : BaselineModelFn(mode, params)
    \/ \E name \in Objectives, nll \in NllValues, kls \in KlLists, c \in KlCoeffs :
          Objective(name, nll, kls, c)
    \/ \E n \in NumBatches, nll \in NllValues, kls \in KlLists : UpdateAgentLoss(n, nll, kls)
    \/ \E n \in 1..MaxRows : UpdateAgentEpoch(n)
    \/ \E agent \in [{1} \X (1..NumThompsonSamples) \X Arms -> Predictions],
          epsilon \in Epsilons, uniform \in Uniforms, rand_action \in Arms :
          GetAction(agent, epsilon, uniform, rand_action)

FunctionsSpec == FunctionsInit /\ [][FunctionsNext]_vars

----------------------------------------------------------------------------
(* The bandit loop of run *)

\* the largest update_every, replay_buffer_size and max_steps of a config
MaxUpdateEvery == 2
MaxBufferSize == 3
MaxSteps == 5

\* the outcomes of the random draws of one batch: the agent's sampling and
\* np.random
BatchSeeds == 1..4

\* config of run, with args.eps; the sizes are drawn from small ranges
BanditConfigs ==
    {RunConfig @@ [update_every |-> u, replay_buffer_size |-> b, max_steps |-> MaxSteps,
                   eps |-> e] :
        u \in 1..MaxUpdateEvery, b \in 1..MaxBufferSize, e \in Epsilons}

\* what the agent predicts and np.random draws in a batch of outcome sd
AgentOutputs(sd, n) ==
    [x \in (1..n) \X (1..NumThompsonSamples) \X Arms |->
        ((((sd + x[1]) * (x[3] + 1) + x[2]) % 3) - 1) * One]

UniformDraws(sd, n) == [c \in 1..n |-> ((sd + c) % 2) * (One - 1)]
ChoiceDraws(sd, n) == [c \in 1..n |-> (sd \div 2 + c) % 2]

\* action_vec and feature_vec: the row of a context, which start_idx + c
\* stands for, with the one-hot encoding of the action taken
FeatureVec(start_idx, action) ==
    [c \in 1..Len(action) |->
        [context |-> start_idx + c,
         action_vec |-> IF action[c] = 0 THEN <<1, 0>> ELSE <<0, 1>>]]

\* reward: the rows of no_eat_reward, replaced by those of eat_reward where
\* the action is to eat
Reward(start_idx, action) ==
    [c \in 1..Len(action) |->
        [from |-> IF action[c] = 1 THEN "eat_reward" ELSE "no_eat_reward",
         row |-> start_idx + c]]

\* np.vstack, and the buffer itself when there is none yet (None is <<>>)
Stacked(held, rows) == IF held = <<>> THEN rows ELSE held \o rows

\* rows[:n], the first n rows
FirstRows(rows, n) == SubSeq(rows, 1, n)

\* rows[-n:], the last n rows
LastRows(rows, n) == SubSeq(rows, Len(rows) - n + 1, Len(rows))

\* the pruning of the replay buffer; both arrays are cut on the buffer's length
Pruned(config, replay_buffer, rewards) ==
    IF Len(replay_buffer) > config.replay_buffer_size
    THEN [replay_buffer |-> LastRows(replay_buffer, config.replay_buffer_size),
          rewards |-> LastRows(rewards, config.replay_buffer_size)]
    ELSE [replay_buffer |-> replay_buffer, rewards |-> rewards]

\* the two arrays after the rows of this batch are stacked on them and the
\* buffer is pruned
Kept(config, self, action) ==
    Pruned(config,
           Stacked(self.replay_buffer,
                   FeatureVec(self.total_batch_index * config.update_every, action)),
           Stacked(self.rewards,
                   Reward(self.total_batch_index * config.update_every, action)))

\* update_agent(contexts=replay_buffer, rewards=np.array(rewards), ...)
Updated(self, action, kept, update) ==
    [total_batch_index |-> self.total_batch_index + 1, action |-> action,
     update |-> update, replay_buffer |-> kept.replay_buffer, rewards |-> kept.rewards]

\* the rest of the body of the loop once the action is chosen
Acted(config, self, action, kept) ==
    Updated(self, action, kept, update_agent(Len(kept.replay_buffer), config))

\* one pass of the body of the loop over the batches; num_warmup_batches is 0
Chosen(config, self, action) == Acted(config, self, action, Kept(config, self, action))

run_batch(config, self, sd) ==
    Chosen(config, self,
           get_action(AgentOutputs(sd, config.update_every), config.update_every, config.eps,
                      UniformDraws(sd, config.update_every),
                      ChoiceDraws(sd, config.update_every)))

\* run(args) up to the loop
BanditInit ==
    /\ variant = "VarMushroomRL"
    /\ prior = PriorOf(variant)
    /\ units = Units
    /\ seed = 1
    /\ rng = 0
    /\ nextId = 2
    /\ layers = <<>>
    /\ is_connected = FALSE
    /\ store = [k \in 1..3 |-> NoVariables]
    /\ logits = <<>>
    /\ \E config \in BanditConfigs :
          ret = Returned("run", config, Ok,
                         [total_batch_index |-> 0, action |-> <<>>,
                          update |-> update_agent(0, config),
                          replay_buffer |-> <<>>, rewards |-> <<>>])
    /\ completed = 0
    /\ passes = 0
    /\ masked = {}

\* for batch_idx in range(num_batches): ...
RunBatch(sd) ==
    /\ ret.op = "run"
    /\ ret.val.total_batch_index < ret.arg.max_steps \div ret.arg.update_every
    /\ ret' = Returned("run", ret.arg, Ok, run_batch(ret.arg, ret.val, sd))
    /\ NetworkUnchanged

BanditNext == \E sd \in BatchSeeds : RunBatch(sd)

BanditSpec == BanditInit /\ [][BanditNext]_vars

----------------------------------------------------------------------------
(* Properties *)

\* the variables with the name of the last call in front: the returns of
\* two calls are compared only when the calls are the same
observed == <<ret.op, vars>>

\* the calls that are guarded by _ensure_is_connected
GuardedCalls ==
    {"kl_divergence", "mu_vector", "sigma_vector", "prune_below_snr",
     "layer_kl_divergence", "layer_w_mu", "layer_w_rho", "layer_w_sigma",
     "layer_b_mu", "layer_b_rho", "layer_b_sigma", "layer_prune_below_snr"}

\* C1: on a layer or network that has completed no forward pass, reading
\* kl_divergence, w_mu, w_sigma, b_mu, b_sigma, mu_vector or sigma_vector, or
\* calling prune_below_snr, raises NotConnectedError, returns no value, and
\* creates or changes no parameter
C1_NotBuiltRaises ==
    [][(completed = 0 /\ ret'.op \in GuardedCalls)
          => /\ ret'.err = NotConnectedError
             /\ store' = store
             /\ store = [k \in 1..3 |-> NoVariables]
             /\ layers' = layers]_observed

C1_Witness ==
    /\ completed = 0
    /\ ret.op \in {"prune_below_snr", "layer_w_sigma"}
    /\ ret.err = NotConnectedError

\* C2 as claimed: compress() on a network that has completed no forward pass
\* raises NotConnectedError and returns no reduced network
C2_CompressNotBuiltRaises ==
    (ret.op = "compress" /\ completed = 0)
        => (ret.err = NotConnectedError /\ ret.val = NoReduced)

\* C3 as claimed: a VarLinear forward call raises IncompatibleShapeError
\* exactly when the input is not of rank 2, or its last dimension is unknown,
\* or its last dimension differs from the width an earlier call fixed; every
\* other call completes
C3_ShapeErrorExactly ==
    ret.op = "layer_forward"
        => LET rank == ret.arg[1]
               width == ret.arg[2]
               bound == layers[1].input_shape
               bad == rank # 2 \/ width = 0 \/ (bound # 0 /\ width # bound)
           IN /\ bad <=> ret.err = IncompatibleShapeError
              /\ ~bad <=> ret.err = Ok

\* C4: a read of network.kl_divergence after a completed forward pass returns
\* the sum of the kl_divergence of three layers, and these are the three
\* layer objects the most recent completed pass made
C4_KlIsSumOfLastPass ==
    (ret.op = "kl_divergence" /\ ret.err = Ok)
        => /\ Len(layers) = 3
           /\ ret.val = Add(Add(layers[1].kl_divergence, layers[2].kl_divergence),
                            layers[3].kl_divergence)
           /\ \A k \in 1..3 : layers[k].id = nextId - 4 + k /\ layers[k].slot = k

C4_Witness ==
    /\ ret.op = "kl_divergence"
    /\ ret.err = Ok
    /\ completed = 2
    /\ ret.val # 0

\* C5: a connected layer drew one sample for its weight and, with a bias, one
\* for its bias in its forward pass, and the KL term was taken at the very
\* samples that went into the output
C5_OneSampleBothUses ==
    \A k \in 1..Len(layers) :
        layers[k].is_connected
            => /\ layers[k].out_w > 0
               /\ layers[k].kl_w = layers[k].out_w
               /\ IF layers[k].use_bias
                  THEN /\ layers[k].out_b > 0
                       /\ layers[k].out_b # layers[k].out_w
                       /\ layers[k].kl_b = layers[k].out_b
                       /\ layers[k].ndraws = 2
                  ELSE /\ layers[k].out_b = 0
                       /\ layers[k].kl_b = 0
                       /\ layers[k].ndraws = 1

C5_Witness ==
    /\ Len(layers) = 3
    /\ \A k \in 1..3 : layers[k].is_connected /\ layers[k].use_bias
    /\ completed = 2

\* C6: every completed forward pass of a network leaves it with layer objects
\* made in that pass, whose weight and bias samples and KL terms come from
\* draws the generator had not served before the pass
C6_EveryPassResamples ==
    [][(variant \in Networks /\ completed' = completed + 1)
          => /\ Len(layers') = 3
             /\ \A k \in 1..3 :
                   /\ layers'[k].id >= nextId
                   /\ layers'[k].out_w > rng
                   /\ layers'[k].kl_w > rng
                   /\ layers'[k].out_b > rng
                   /\ layers'[k].kl_b > rng
                   /\ \A j \in 1..Len(layers) :
                         /\ layers'[k].out_w # layers[j].out_w
                         /\ layers'[k].out_b # layers[j].out_b]_observed

C6_Witness ==
    /\ variant \in Networks
    /\ completed = 2
    /\ ret.op = "forward"
    /\ ret.err = Ok

\* means and scales of one layer's variables
MeansScales(st) ==
    [w_mu |-> st.w_mu, w_sigma |-> Sigma(st.w_rho),
     b_mu |-> st.b_mu, b_sigma |-> Sigma(st.b_rho)]

\* C7: for every connected layer and every threshold, pruning twice leaves
\* the means and scales that pruning once leaves, and an entry zeroed by the
\* first call is zero after the second
C7_PruneIdempotent ==
    \A k \in 1..Len(layers), snr \in SnrThresholds :
        layers[k].is_connected
            => LET once == VarLinear_prune_below_snr(layers[k], store[layers[k].slot], snr).st
                   twice == VarLinear_prune_below_snr(layers[k], once, snr).st
               IN /\ MeansScales(twice) = MeansScales(once)
                  /\ \A i \in DOMAIN once.w_mu : once.w_mu[i] = 0 => twice.w_mu[i] = 0
                  /\ \A i \in DOMAIN once.b_mu : once.b_mu[i] = 0 => twice.b_mu[i] = 0

\* a prune call has zeroed some entries and kept others, after a training
\* step had moved the raw scales
C7_Witness ==
    /\ ret.op = "prune_below_snr"
    /\ ret.err = Ok
    /\ masked # {}
    /\ \E i \in DOMAIN store[1].w_mu :
          store[1].w_mu[i] # 0 /\ store[1].w_rho[i] \notin {NegInf, RhoInit}

\* the signal-to-noise ratio 10 log(|mu| / sigma) of an entry exceeds snr
SnrAbove(mu, sigma, snr) ==
    CASE snr = 0 -> (sigma = 0 /\ mu # 0) \/ (sigma # 0 /\ Abs(mu) > sigma)
      [] snr = 100000 -> (sigma = 0 /\ mu # 0) \/ (sigma # 0 /\ Abs(mu) > 22026 * sigma)

PruneCalls == {"prune_below_snr", "layer_prune_below_snr"}

\* C8: a prune call keeps the mean of every entry whose signal-to-noise ratio
\* is strictly above the threshold and sets every other mean to 0, in every
\* layer it is made on (all of them for the network's call, the one named
\* for a layer's call)
C8_PruneStrictThreshold ==
    [][(ret'.op \in PruneCalls /\ ret'.err = Ok)
          => LET snr == IF ret'.op = "prune_below_snr" THEN ret'.arg ELSE ret'.arg[2]
                 pruned == IF ret'.op = "prune_below_snr" THEN 1..Len(layers)
                           ELSE {ret'.arg[1]}
             IN \A k \in pruned :
                  LET old == store[layers[k].slot]
                      new == store'[layers[k].slot]
                  IN /\ \A i \in DOMAIN old.w_mu :
                          new.w_mu[i] = IF SnrAbove(old.w_mu[i], Softplus(old.w_rho[i]), snr)
                                        THEN old.w_mu[i] ELSE 0
                     /\ \A i \in DOMAIN old.b_mu :
                          new.b_mu[i] = IF SnrAbove(old.b_mu[i], Softplus(old.b_rho[i]), snr)
                                        THEN old.b_mu[i] ELSE 0]_observed

\* a threshold above every entry's ratio has zeroed every weight mean
C8_Witness ==
    /\ ret.op = "prune_below_snr"
    /\ ret.err = Ok
    /\ ret.arg = 100000
    /\ \A k \in 1..3 : \A i \in DOMAIN store[k].w_mu : store[k].w_mu[i] = 0

\* every scale entry of the variables of one layer
Scales(slot) ==
    {<<slot, "w", i, Softplus(store[slot].w_rho[i])>> : i \in DOMAIN store[slot].w_rho}
    \cup {<<slot, "b", i, Softplus(store[slot].b_rho[i])>> : i \in DOMAIN store[slot].b_rho}

ReadOnlyCalls ==
    {"kl_divergence", "mu_vector", "sigma_vector", "sample_posterior", "compress",
     "layer_kl_divergence", "layer_w_mu", "layer_w_rho", "layer_w_sigma",
     "layer_b_mu", "layer_b_rho", "layer_b_sigma"}

\* C10: a step changes a mean or a raw scale only when it is a training step,
\* a prune call, or the forward pass that creates the variables; reads,
\* sample_posterior, compress() and later forward passes change none, and
\* compress() returns an object that is not the source network
C10_ParametersFrame ==
    [][/\ ret'.op \in ReadOnlyCalls => store' = store
       /\ (ret'.op \in {"forward", "layer_forward"} /\ completed >= 1) => store' = store
       /\ store' # store
             => \/ ret'.op \in PruneCalls \cup {"update_agent"}
                \/ ret'.op \in {"forward", "layer_forward"} /\ completed = 0
       /\ (ret'.op = "compress" /\ ret'.err = Ok)
             => ret'.val.id # SelfId /\ ret'.val.id # 0]_observed

\* a forward pass on a network whose parameters pruning had changed
C10_Witness ==
    /\ ret.op = "forward"
    /\ ret.err = Ok
    /\ completed = 2
    /\ masked # {}

\* C11: the network compress() hands back, once built, has an output layer as
\* wide as the output layer of the network it was made from
C11_OutputWidthPreserved ==
    (ret.op = "reduced_forward" /\ ret.err = Ok /\ layers # <<>>)
        => ret.val.layers[3].output_size = layers[3].output_size

\* C12: the array get_unused_input_mask() returns holds 1 exactly at the
\* original input positions compression discarded (those not in
\* input_indices) and 0 at the retained ones
C12_MaskMarksDiscarded ==
    (ret.op = "get_unused_input_mask" /\ ret.err = Ok)
        => \A i \in DOMAIN ret.val :
              (ret.val[i] = 1) <=>
                  ~(\E m \in 1..Len(ret.arg) : ret.arg[m] = MaskSide * i[1] + i[2])

\* C13: compress() returns a pair, the reduced network first and the
\* CompressionResult (input_indices and the trimmed tensors) second
C13_CompressReturnsPair ==
    (ret.op = "compress" /\ ret.err = Ok)
        => /\ Len(compress_return(ret.val)) = 2
           /\ compress_return(ret.val)[1].id = NewNetworkId

\* the means and scales the layers of a reduced network hold, layer by layer
HeldBy(self) ==
    [k \in 1..Len(self.layers) |->
        [w_mu |-> self.store[self.layers[k].slot].w_mu,
         w_sigma |-> Sigma(self.store[self.layers[k].slot].w_rho),
         b_mu |-> self.store[self.layers[k].slot].b_mu,
         b_sigma |-> Sigma(self.store[self.layers[k].slot].b_rho)]]

\* the trimmed means and scales compression stored in a reduced network
TrimmedIn(self) ==
    [k \in 1..Len(self.w_mus) |->
        [w_mu |-> self.w_mus[k], w_sigma |-> self.w_sigmas[k],
         b_mu |-> self.b_mus[k], b_sigma |-> self.b_sigmas[k]]]

\* C14: a forward pass of the reduced network compress() handed back runs
\* every layer on the trimmed means and scales compression computed
C14_ReducedForwardUsesTrimmed ==
    (ret.op = "reduced_forward" /\ ret.err = Ok) => HeldBy(ret.val) = TrimmedIn(ret.val)

\* what reading w_mu, w_sigma, b_mu and b_sigma of the layers of a reduced
\* network returns, layer by layer
ReadBack(self) ==
    [k \in 1..Len(self.layers) |->
        [name \in {"w_mu", "w_sigma", "b_mu", "b_sigma"} |->
            VarLinear_property(self.layers[k], self.store[self.layers[k].slot], name)]]

\* C15: after assign_params, reading w_mu, w_sigma, b_mu and b_sigma of every
\* layer the transplant reached with a matching shape returns exactly the
\* values transplanted into it (ret.arg counts the layers the loop completed)
C15_TransplantRoundTrip ==
    (ret.op = "assign_params")
        => \A k \in 1..ret.arg :
              /\ ReadBack(ret.val)[k]["w_mu"] = [err |-> Ok, val |-> ret.val.w_mus[k]]
              /\ ReadBack(ret.val)[k]["w_sigma"] = [err |-> Ok, val |-> ret.val.w_sigmas[k]]
              /\ ReadBack(ret.val)[k]["b_mu"] = [err |-> Ok, val |-> ret.val.b_mus[k]]
              /\ ReadBack(ret.val)[k]["b_sigma"] = [err |-> Ok, val |-> ret.val.b_sigmas[k]]

\* assign_params completed on all three layers of a reduced network whose
\* trimmed scales hold a pruned entry (scale 0) beside an unpruned one
C15_Witness ==
    /\ ret.op = "assign_params"
    /\ ret.err = Ok
    /\ ret.arg = 3
    /\ \E k \in 1..3 : \E i, j \in DOMAIN ret.val.w_sigmas[k] :
          ret.val.w_sigmas[k][i] = 0 /\ ret.val.w_sigmas[k][j] > 0

\* the hyperparameters the data model rules out: a mixing proportion outside
\* [0, 1], a sigma that is not positive
BadHyperparameters(op, params) ==
    IF op = "create_gaussian_prior" THEN params.sigma <= 0
    ELSE params.mix_prop < 0 \/ params.mix_prop > One
         \/ params.sigma1 <= 0 \/ params.sigma2 <= 0

\* C16: constructing a prior with mix_prop outside [0, 1] or with a
\* non-positive sigma, sigma1 or sigma2 fails; no prior is returned
C16_BadHyperparametersRejected ==
    (/\ ret.op \in {"create_gaussian_prior", "create_mixture_prior"}
     /\ BadHyperparameters(ret.op, ret.arg))
        => ret.err # Ok

\* C17: baseline_model_fn called with params that lack "learning_rate" raises
\* the missing-hyperparameter error, in every mode, with no optimizer and no
\* model constructed
C17_MissingLearningRateRaises ==
    (ret.op = "baseline_model_fn" /\ "learning_rate" \notin DOMAIN ret.arg[2])
        => (ret.err = MissingLearningRate /\ ret.val = NothingBuilt)

\* a TRAIN call whose params lack only the learning rate has been made
C17_Witness ==
    /\ ret.op = "baseline_model_fn"
    /\ ret.arg[1] = "train"
    /\ DOMAIN ret.arg[2] = {"optimizer", "hidden_units"}
    /\ ret.err = MissingLearningRate

\* C18: every objective the code computes is kl_coeff times the sum of the
\* per-layer KL divergences plus the negative log-likelihood, with kl_coeff
\* applied once (ret.arg holds the negative log-likelihood, the KL
\* divergences and kl_coeff of the call)
C18_KlCoeffAppliedOnce ==
    (ret.op \in Objectives \cup {"update_agent_loss"})
        => ret.val.elbo = Mul(ret.arg[3], SumList(ret.arg[2])) + ret.arg[1]

\* C19: every layer of the network holds the very prior object the network
\* holds, that object is the one the network was constructed with, its
\* hyperparameters unchanged, and a reduced network compress() handed back
\* holds the same object, and so do its layers
C19_PriorShared ==
    /\ prior = PriorOf(variant)
    /\ \A k \in 1..Len(layers) : layers[k].prior = prior
    /\ HoldsReduced
          => /\ ret.val.prior = prior
             /\ \A k \in 1..Len(ret.val.layers) : ret.val.layers[k].prior = prior

\* a network that was built and pruned, and the reduced network made from it
\* and built in turn
C19_Witness ==
    /\ Len(layers) = 3
    /\ masked # {}
    /\ ret.op = "reduced_forward"
    /\ ret.err = Ok
    /\ Len(ret.val.layers) = 3

\* C20: prune_below_snr of one layer changes that layer's own variables only
\* and leaves the variables of every other layer as they were; the network's
\* prune_below_snr does to every layer what the layer's prune_below_snr does,
\* with the threshold it was given
C20_PruneLocal ==
    [][/\ (ret'.op = "layer_prune_below_snr" /\ ret'.err = Ok)
             => /\ \A j \in DOMAIN store :
                      j # layers[ret'.arg[1]].slot => store'[j] = store[j]
                /\ store'[layers[ret'.arg[1]].slot]
                      = VarLinear_prune_below_snr(layers[ret'.arg[1]],
                                                  store[layers[ret'.arg[1]].slot],
                                                  ret'.arg[2]).st
       /\ (ret'.op = "prune_below_snr" /\ ret'.err = Ok)
             => \A k \in 1..Len(layers) :
                   store'[layers[k].slot]
                      = VarLinear_prune_below_snr(layers[k], store[layers[k].slot],
                                                  ret'.arg).st]_observed

\* one layer of a network has been pruned: entries of it are masked out, and
\* another layer holds an entry that call would have masked out had it been
\* made on that layer
C20_Witness ==
    /\ variant \in Networks
    /\ ret.op = "layer_prune_below_snr"
    /\ ret.err = Ok
    /\ \E e \in masked : e[1] = layers[ret.arg[1]].slot
    /\ \E j \in 1..Len(layers) :
          /\ j # ret.arg[1]
          /\ MaskedOut(layers[j].slot, store[layers[j].slot], TRUE, ret.arg[2]) # {}
          /\ ~(\E e \in masked : e[1] = layers[j].slot)

\* the number of weight entries and of bias entries of the layers before k
WeightsBefore(k) ==
    SumOver([j \in 1..(k - 1) |-> Cardinality(DOMAIN store[layers[j].slot].w_mu)], k - 1)

BiasesBefore(k) ==
    SumOver([j \in 1..(k - 1) |-> Cardinality(DOMAIN store[layers[j].slot].b_mu)], k - 1)

\* the position in the vectors of the weight entry i and of the bias entry i
\* of layer k: all weights in layer order, row-major, then all biases
WeightPosition(k, i) ==
    WeightsBefore(k) + (i[1] - 1) * OutWidth(store[layers[k].slot].w_mu) + i[2]

BiasPosition(k, i) ==
    WeightsBefore(Len(layers) + 1) + BiasesBefore(k) + i[2]

\* what a vector read by the call op holds for a mean mu of raw scale rho at
\* position n
EntryRead(op, mu, rho, n) ==
    CASE op = "mu_vector" -> mu
      [] op = "sigma_vector" -> Softplus(rho)
      [] op = "sample_posterior" -> mu + RoundDiv(Softplus(rho) * Epsilon(seed, rng, n), One)

VectorCalls == {"mu_vector", "sigma_vector", "sample_posterior"}

\* C21: mu_vector, sigma_vector and sample_posterior of a built network are
\* as long as the network has weight and bias entries, and position n of
\* each is the mean, the scale, and the mean plus scale times noise of one
\* and the same entry: all weights in layer order, then all biases
C21_VectorsAligned ==
    (ret.op \in VectorCalls /\ ret.err = Ok)
        => /\ Len(ret.val) = WeightsBefore(Len(layers) + 1) + BiasesBefore(Len(layers) + 1)
           /\ \A k \in 1..Len(layers) :
                 LET st == store[layers[k].slot]
                 IN /\ \A i \in DOMAIN st.w_mu :
                         ret.val[WeightPosition(k, i)]
                             = EntryRead(ret.op, st.w_mu[i], st.w_rho[i], WeightPosition(k, i))
                    /\ \A i \in DOMAIN st.b_mu :
                         ret.val[BiasPosition(k, i)]
                             = EntryRead(ret.op, st.b_mu[i], st.b_rho[i], BiasPosition(k, i))

\* a built network of three layers with biases returned a posterior sample
C21_Witness ==
    /\ ret.op = "sample_posterior"
    /\ ret.err = Ok
    /\ Len(layers) = 3
    /\ Len(ret.val) > BiasesBefore(4)
    /\ BiasesBefore(4) > 0

\* C22: over one epoch of update_agent the loop iterates over num_batches
\* batches, so the coefficients 1 / num_batches of its losses sum to 1
C22_KlCoeffsSumToOne ==
    ret.op = "update_agent"
        => /\ Len(ret.val.kl_coeffs) = ret.val.num_batches
           /\ \A k \in 1..Len(ret.val.kl_coeffs) :
                 ret.val.kl_coeffs[k] = <<1, Len(ret.val.kl_coeffs)>>

\* an entry of mean mu and raw scale rho before a call, and new_mu and
\* new_rho after it, was left as it was or zeroed in mean and in scale
KeptOrZeroed(mu, rho, new_mu, new_rho) ==
    \/ new_mu = mu /\ Softplus(new_rho) = Softplus(rho)
    \/ new_mu = 0 /\ Softplus(new_rho) = 0

\* C23: a prune call leaves every weight and bias entry of the layers it is
\* made on with its mean and scale both as before or both zero
C23_PruneMeanAndScaleTogether ==
    [][(ret'.op \in PruneCalls /\ ret'.err = Ok)
          => \A k \in (IF ret'.op = "prune_below_snr" THEN 1..Len(layers)
                       ELSE {ret'.arg[1]}) :
                LET old == store[layers[k].slot]
                    new == store'[layers[k].slot]
                IN /\ DOMAIN new.w_mu = DOMAIN old.w_mu
                   /\ DOMAIN new.b_mu = DOMAIN old.b_mu
                   /\ \A i \in DOMAIN old.w_mu :
                         KeptOrZeroed(old.w_mu[i], old.w_rho[i], new.w_mu[i], new.w_rho[i])
                   /\ \A i \in DOMAIN old.b_mu :
                         KeptOrZeroed(old.b_mu[i], old.b_rho[i], new.b_mu[i], new.b_rho[i])]_observed

\* a prune call zeroed one weight entry of a layer and kept another one,
\* whose mean is not zero
C23_Witness ==
    /\ ret.op \in PruneCalls
    /\ ret.err = Ok
    /\ \E k \in 1..Len(layers) :
          LET st == store[layers[k].slot]
          IN \E i, j \in DOMAIN st.w_mu :
                /\ <<layers[k].slot, "w", i>> \in masked
                /\ st.w_mu[i] = 0 /\ Softplus(st.w_rho[i]) = 0
                /\ <<layers[k].slot, "w", j>> \notin masked
                /\ st.w_mu[j] # 0 /\ Softplus(st.w_rho[j]) > 0

ForwardCalls == {"forward", "layer_forward"}

\* what a forward call is left by when the shape of its input is refused: the
\* raise statements of VarLinear._build, and tf.get_variable on a variable
\* held with another shape
ShapeFailures == {RaiseShapeError, IncompatibleShapeError, ValueError}

\* the widths a forward call is accepted with: the one the variables held
\* were made for, any when none are held
AcceptedWidths(layer, st) ==
    {w \in 1..MaxWidth : /\ layer.input_shape \in {0, w}
                         /\ st.w_mu = NoTensor \/ InWidth(st.w_mu) = w}

\* C24: a forward call the shape of whose input is refused leaves the layers,
\* their bound widths, variables and KL terms, the outputs and the generator
\* as they were, and a forward call with an input of rank 2 and an accepted
\* width made after it succeeds
C24_FailedForwardLeavesState ==
    [][(ret'.op \in ForwardCalls /\ ret'.err \in ShapeFailures)
          => /\ layers' = layers
             /\ store' = store
             /\ is_connected' = is_connected
             /\ logits' = logits
             /\ rng' = rng
             /\ completed' = completed
             /\ IF variant = "VarLinear"
                THEN \A w \in AcceptedWidths(layers'[1], store'[1]) :
                        VarLinear_call(layers'[1], store'[1], Inputs(2, w), seed, rng').err = Ok
                ELSE \A w \in AcceptedWidths(VarLinear_init(nextId', 1, units, prior, TRUE),
                                             store'[1]) :
                        Build(variant, units, prior, layers', store', Inputs(2, w), seed,
                              rng', nextId').err = Ok]_observed

\* a forward call was refused for its shape after a forward call had succeeded
C24_Witness ==
    /\ ret.op \in ForwardCalls
    /\ ret.err \in ShapeFailures
    /\ completed >= 1
    /\ ret.arg[1] = 2
    /\ ret.arg[2] \in 1..MaxWidth
    /\ AcceptedWidths(VarLinear_init(nextId, 1, units, prior, TRUE), store[1]) # {}

\* the sum over the Thompson samples of the agent's predictions for arm a of
\* context c
Predicted(agent, c, a) ==
    SumOver([i \in 1..NumThompsonSamples |-> agent[<<c, i, a>>]], NumThompsonSamples)

\* C26: with epsilon = 0 get_action returns for every context the arm whose
\* predictions over the Thompson samples sum to more, and not to eat when
\* the two sums are equal
C26_GreedyAtEpsilonZero ==
    (ret.op = "get_action" /\ ret.arg.epsilon = 0)
        => \A c \in 1..Len(ret.val) :
              ret.val[c] = IF Predicted(ret.arg.agent, c, 1) > Predicted(ret.arg.agent, c, 0)
                           THEN 1 ELSE 0

\* the rows appended to the replay buffer so far
AppendedRows == ret.val.total_batch_index * ret.arg.update_every

\* C25: after every batch of the bandit loop the replay buffer and the
\* rewards hold the same number of rows, the smaller of the number appended
\* and replay_buffer_size, and they are the rows appended last, in the order
\* they were appended in, each reward next to the row of its context
C25_ReplayBufferKeepsLatest ==
    ret.op = "run"
        => /\ Len(ret.val.replay_buffer) = Len(ret.val.rewards)
           /\ Len(ret.val.replay_buffer)
                 = IF AppendedRows < ret.arg.replay_buffer_size THEN AppendedRows
                   ELSE ret.arg.replay_buffer_size
           /\ \A j \in 1..Len(ret.val.replay_buffer) :
                 /\ ret.val.replay_buffer[j].context
                       = AppendedRows - Len(ret.val.replay_buffer) + j
                 /\ ret.val.rewards[j].row = ret.val.replay_buffer[j].context
                 /\ ret.val.rewards[j].from = "eat_reward"
                       <=> ret.val.replay_buffer[j].action_vec = <<0, 1>>

\* the buffer was cut in this batch and the batches before it, and holds rows
\* of both actions
C25_Witness ==
    /\ ret.op = "run"
    /\ ret.arg.replay_buffer_size = 3
    /\ AppendedRows >= ret.arg.replay_buffer_size + 2 * ret.arg.update_every
    /\ Len(ret.val.replay_buffer) = 3
    /\ \E i, j \in 1..3 : /\ ret.val.rewards[i].from = "eat_reward"
                          /\ ret.val.rewards[j].from = "no_eat_reward"

====
